---- MODULE Spec2Model ----
(***************************************************************************)
(* Model of machine_learning/linear_regression/src/linear_regression.py:   *)
(* the descriptive statistics (mean_calculator, sample_standard_deviation, *)
(* pearsons_correlation_coefficient), simple_linear_regression,            *)
(* ordinary_least_squares and gradient_descent.                            *)
(*                                                                         *)
(* One behaviour is one call of one of the six functions: Init chooses the *)
(* function and its arguments, the actions run the call, and pc = "done"   *)
(* is the state after it returned or raised.                               *)
(*                                                                         *)
(* Numbers are exact rationals <<numerator, denominator>> in lowest terms  *)
(* with a positive denominator.  The one operation that leaves the         *)
(* rationals, math.sqrt, is rounded to the nearest multiple of             *)
(* 1/SqrtScale, as a floating-point square root is rounded to the nearest  *)
(* representable number.                                                   *)
(***************************************************************************)
EXTENDS Integers, Sequences, FiniteSets, TLC

VARIABLES
    fn,                    \* the function that is called
    independent_var_data,  \* first sample argument (var_data, var_sample_data)
    dependent_var_data,    \* second sample argument
    independent_matrix,    \* design matrix argument, a sequence of rows
    dependent_matrix,      \* target vector argument
    learning_rate,         \* gradient_descent's learning_rate
    step_count,            \* gradient_descent's step_count
    theta,                 \* gradient_descent's local theta
    steps,                 \* iterations of gradient_descent's loop done so far
    pc,                    \* "call", "loop" (inside gradient_descent's loop), "done"
    branch,                \* simple_linear_regression: "none", "rejected", "fitted"
    outcome,               \* "none", "return" or the name of the exception raised
    result,                \* the value returned: [type, val]
    console                \* the lines printed so far

vars == <<fn, independent_var_data, dependent_var_data, independent_matrix,
          dependent_matrix, learning_rate, step_count, theta, steps, pc,
          branch, outcome, result, console>>

(***************************************************************************)
(* Bounds of the model.                                                    *)
(***************************************************************************)
MaxLen == 3        \* longest sample
MaxRows == 3       \* most rows of ordinary_least_squares' design matrix
MaxRowsGD == 2     \* most rows of gradient_descent's design matrix
MaxSteps == 2      \* largest step_count
SqrtScale == 100   \* math.sqrt is rounded to the nearest 1/SqrtScale

(***************************************************************************)
(* Rational arithmetic.                                                    *)
(***************************************************************************)
Abs(i) == IF i < 0 THEN -i ELSE i

RECURSIVE GCD(_, _)
GCD(a, b) == IF b = 0 THEN a ELSE GCD(b, a % b)

Norm(n, d) ==
    LET g == GCD(Abs(n), Abs(d))
        s == IF d < 0 THEN -1 ELSE 1
    IN  <<s * (n \div g), s * (d \div g)>>

R(i) == <<i, 1>>
Zero == R(0)

RAdd(a, b) ==
    LET l == (a[2] \div GCD(a[2], b[2])) * b[2]
    IN  Norm(a[1] * (l \div a[2]) + b[1] * (l \div b[2]), l)

RNeg(a) == <<-a[1], a[2]>>
RSub(a, b) == RAdd(a, RNeg(b))

RMul(a, b) ==
    LET g1 == GCD(Abs(a[1]), b[2])
        g2 == GCD(Abs(b[1]), a[2])
    IN  IF a[1] = 0 \/ b[1] = 0 THEN Zero
        ELSE <<(a[1] \div g1) * (b[1] \div g2), (a[2] \div g2) * (b[2] \div g1)>>

\* a / b for b # 0
RDiv(a, b) == RMul(a, Norm(b[2], b[1]))

RSq(a) == RMul(a, a)
RAbs(a) == <<Abs(a[1]), a[2]>>

RLt(a, b) ==
    LET l == (a[2] \div GCD(a[2], b[2])) * b[2]
    IN  a[1] * (l \div a[2]) < b[1] * (l \div b[2])

RLeq(a, b) == a = b \/ RLt(a, b)

\* the largest k in lo..hi with k * k <= n, for lo * lo <= n < (hi + 1) * (hi + 1)
RECURSIVE ISqrtIn(_, _, _)
ISqrtIn(n, lo, hi) ==
    IF lo = hi THEN lo
    ELSE LET mid == (lo + hi + 1) \div 2
         IN  IF mid * mid <= n THEN ISqrtIn(n, mid, hi) ELSE ISqrtIn(n, lo, mid - 1)

ISqrt(n) == ISqrtIn(n, 0, IF n < 46340 THEN n ELSE 46340)

\* math.sqrt(a) for a >= 0: the multiple of 1/SqrtScale nearest to the root
sqrt(a) ==
    LET n == (4 * a[1] * SqrtScale * SqrtScale) \div a[2]
    IN  Norm((ISqrt(n) + 1) \div 2, SqrtScale)

(***************************************************************************)
(* What a call of a helper produces: a value, or an exception.             *)
(***************************************************************************)
Ok(v) == [exc |-> "none", val |-> v]
Raise(e) == [exc |-> e, val |-> Zero]

\* the sum of the terms of a sequence, added in the order of the loop
RECURSIVE Sum(_)
Sum(terms) ==
    IF Len(terms) = 0 THEN Zero
    ELSE RAdd(Sum(SubSeq(terms, 1, Len(terms) - 1)), terms[Len(terms)])

(***************************************************************************)
(* mean_calculator: mean / len(var_data); 0 / 0 raises for the empty list. *)
(***************************************************************************)
mean_calculator(var_data) ==
    LET mean == Sum([i \in 1..Len(var_data) |-> R(var_data[i])])
    IN  IF Len(var_data) = 0 THEN Raise("ZeroDivisionError")
        ELSE Ok(RDiv(mean, R(Len(var_data))))

(***************************************************************************)
(* sample_standard_deviation: sample_size is len - 1; the loop body        *)
(* divides by it, so a list of one raises and the empty list, whose loop   *)
(* never runs, returns sqrt(0).                                            *)
(***************************************************************************)
sample_standard_deviation(var_sample_data, mean) ==
    LET sample_size == Len(var_sample_data) - 1
        term(i) == RDiv(RSq(RSub(R(var_sample_data[i]), mean)), R(sample_size))
    IN  IF Len(var_sample_data) > 0 /\ sample_size = 0
        THEN Raise("ZeroDivisionError")
        ELSE Ok(sqrt(Sum([i \in 1..Len(var_sample_data) |-> term(i)])))

(***************************************************************************)
(* pearsons_correlation_coefficient: the loop runs over the indices of the *)
(* independent list and reads the dependent list at each of them.          *)
(***************************************************************************)
pearsons_correlation_coefficient(ind_data, dep_data, independent_mean, dependent_mean) ==
    LET sum_x(i) == RSub(R(ind_data[i]), independent_mean)
        sum_y(i) == RSub(R(dep_data[i]), dependent_mean)
        n == Len(ind_data)
        top_sum == Sum([i \in 1..n |-> RMul(sum_x(i), sum_y(i))])
        bottom_left_sum == Sum([i \in 1..n |-> RSq(sum_x(i))])
        bottom_right_sum == Sum([i \in 1..n |-> RSq(sum_y(i))])
        bottom_sum == sqrt(RMul(bottom_left_sum, bottom_right_sum))
    IN  IF Len(dep_data) < n THEN Raise("IndexError")
        ELSE IF bottom_sum = Zero THEN Raise("ZeroDivisionError")
        ELSE Ok(RDiv(top_sum, bottom_sum))

(***************************************************************************)
(* simple_linear_regression.  A call produces the exception raised, the    *)
(* pair returned, the branch taken and the lines it printed.               *)
(***************************************************************************)
RejectMessage == "Linear regression cannot be used to predict values from this data"

\* the threshold of the test abs(r) < .5
Threshold == <<1, 2>>

\* the test of line 97
TooWeak(r) == RLt(RAbs(r), Threshold)

\* a rejection branch that prints nothing
RejectPrintsNothing == <<>>

\* the lines the rejection branch prints
RejectPrints == <<RejectMessage>>

\* the pair the rejection branch returns: return 0, 0
RejectValue == <<Zero, Zero>>

SlrOut(e, v, b, p) == [exc |-> e, val |-> v, branch |-> b, printed |-> p]

simple_linear_regression(ind_data, dep_data) ==
    LET x_mean == mean_calculator(ind_data)
        y_mean == mean_calculator(dep_data)
        r == pearsons_correlation_coefficient(ind_data, dep_data, x_mean.val, y_mean.val)
        x_stdev == sample_standard_deviation(ind_data, x_mean.val)
        y_stdev == sample_standard_deviation(dep_data, y_mean.val)
        m == RMul(r.val, RDiv(y_stdev.val, x_stdev.val))
        b == RSub(y_mean.val, RMul(m, x_mean.val))
    IN  IF x_mean.exc # "none" THEN SlrOut(x_mean.exc, <<>>, "none", <<>>)
        ELSE IF y_mean.exc # "none" THEN SlrOut(y_mean.exc, <<>>, "none", <<>>)
        ELSE IF r.exc # "none" THEN SlrOut(r.exc, <<>>, "none", <<>>)
        ELSE IF TooWeak(r.val) THEN SlrOut("none", RejectValue, "rejected", RejectPrints)
        ELSE IF x_stdev.exc # "none" THEN SlrOut(x_stdev.exc, <<>>, "fitted", <<>>)
        ELSE IF y_stdev.exc # "none" THEN SlrOut(y_stdev.exc, <<>>, "fitted", <<>>)
        ELSE IF x_stdev.val = Zero THEN SlrOut("ZeroDivisionError", <<>>, "fitted", <<>>)
        ELSE SlrOut("none", <<m, b>>, "fitted", <<>>)

(***************************************************************************)
(* The numpy operations the two solvers use, in exact arithmetic.  A       *)
(* matrix is a sequence of rows, each a sequence of rationals.             *)
(***************************************************************************)
ToR(v) == [i \in 1..Len(v) |-> R(v[i])]
MatR(M) == [i \in 1..Len(M) |-> ToR(M[i])]

\* np.transpose
Transpose(M) == [j \in 1..Len(M[1]) |-> [i \in 1..Len(M) |-> M[i][j]]]

\* np.dot of two matrices
Dot(A, B) ==
    [i \in 1..Len(A) |-> [j \in 1..Len(B[1]) |->
        Sum([k \in 1..Len(B) |-> RMul(A[i][k], B[k][j])])]]

\* np.dot / np.linalg.matmul of a matrix and a vector
MatVec(A, v) == [i \in 1..Len(A) |-> Sum([k \in 1..Len(v) |-> RMul(A[i][k], v[k])])]

Drop(s, k) == [i \in 1..(Len(s) - 1) |-> IF i < k THEN s[i] ELSE s[i + 1]]
Minor(A, r, c) == [i \in 1..(Len(A) - 1) |-> Drop(Drop(A, r)[i], c)]
Sign(k) == IF k % 2 = 0 THEN R(1) ELSE R(-1)

\* np.linalg.det of a square matrix, by expansion along the first row
RECURSIVE Det(_)
Det(A) ==
    IF Len(A) = 0 THEN R(1)
    ELSE Sum([j \in 1..Len(A) |->
                 RMul(RMul(Sign(1 + j), A[1][j]), Det(Minor(A, 1, j)))])

\* an inverse whose cofactors lost their signs
InvUnsigned(A) ==
    LET d == Det(A)
    IN  [i \in 1..Len(A) |-> [j \in 1..Len(A) |-> RDiv(Det(Minor(A, j, i)), d)]]

\* np.linalg.inv of a square matrix of non-zero determinant
Inv(A) ==
    LET d == Det(A)
    IN  [i \in 1..Len(A) |-> [j \in 1..Len(A) |->
            RDiv(RMul(Sign(i + j), Det(Minor(A, j, i))), d)]]

(***************************************************************************)
(* ordinary_least_squares.  A call produces the exception raised and the   *)
(* value returned: the number 0 when the determinant is 0, the coefficient *)
(* vector otherwise.                                                       *)
(***************************************************************************)
Value(t, v) == [type |-> t, val |-> v]
NoValue == Value("none", <<>>)
Out(e, v) == [exc |-> e, value |-> v]

\* line 122
OlsTranspose(X) == Transpose(X)

\* line 123
OlsNormalMatrix(X) == Dot(OlsTranspose(X), X)

\* the test of line 126
OlsSingular(X) == Det(OlsNormalMatrix(X)) = Zero

\* line 127: return 0
OlsSingularValue == Value("number", <<Zero>>)

\* lines 128-129
OlsPseudoInverse(X) == Dot(Inv(OlsNormalMatrix(X)), OlsTranspose(X))

ordinary_least_squares(ind_matrix, dep_matrix) ==
    LET X == MatR(ind_matrix)
        y == ToR(dep_matrix)
    IN  IF OlsSingular(X) THEN Out("none", OlsSingularValue)
        ELSE IF Len(y) # Len(X) THEN Out("ValueError", NoValue)
        ELSE Out("none", Value("vector", MatVec(OlsPseudoInverse(X), y)))

(***************************************************************************)
(* gradient_descent, one loop iteration at a time.                         *)
(***************************************************************************)
\* a theta with one 0 for each row of the matrix
InitialThetaPerRow(ind_matrix) == [j \in 1..Len(ind_matrix) |-> Zero]

\* line 154: one 0 for each column of the matrix
InitialTheta(ind_matrix) == [j \in 1..Len(ind_matrix[1]) |-> Zero]

\* a loop that runs one time fewer
LoopStopsOneShort(done, count) == done < count - 1

\* line 157: the loop runs step_count times
LoopContinues(done, count) == done < count

\* the operands of dependent_matrix - y_estimate broadcast together
Broadcasts(dep_matrix, rows) == Len(dep_matrix) = rows \/ (Len(dep_matrix) = 1 /\ rows > 1)

\* lines 158-162: matmul(transpose(X), y - matmul(X, theta)) / items_per_variable
Gradient(ind_matrix, dep_matrix, th) ==
    LET X == MatR(ind_matrix)
        items_per_variable == Len(ind_matrix)
        y_estimate == MatVec(X, th)
        y(i) == R(IF Len(dep_matrix) = 1 THEN dep_matrix[1] ELSE dep_matrix[i])
        residual == [i \in 1..items_per_variable |-> RSub(y(i), y_estimate[i])]
        product == MatVec(Transpose(X), residual)
    IN  [j \in 1..Len(product) |-> RDiv(product[j], R(items_per_variable))]

\* line 163: theta - learning_rate * dtheta
Update(th, rate, dtheta) ==
    [j \in 1..Len(dtheta) |-> RSub(th[j], RMul(rate, dtheta[j]))]

(***************************************************************************)
(* The arguments of a call.                                                *)
(***************************************************************************)
Values == 0..2
Samples == UNION {[1..n -> Values] : n \in 0..MaxLen}

Widths == {1, 2}
Entries == 0..1
Targets == -1..1
MatricesOf(rows) == UNION {[1..n -> [1..p -> Entries]] : n \in 1..rows, p \in Widths}
TargetsOf(rows) == UNION {[1..n -> Targets] : n \in 1..rows}
LearningRates == {<<-1, 4>>, Zero, <<1, 4>>}

\* the mean a caller passes with a sample: the sample's own mean (lines 179-185)
MeanOf(sample) == IF Len(sample) = 0 THEN Zero ELSE mean_calculator(sample).val

Idle ==
    /\ theta = <<>>
    /\ steps = 0
    /\ pc = "call"
    /\ branch = "none"
    /\ outcome = "none"
    /\ result = NoValue
    /\ console = <<>>

NoSamples == independent_var_data = <<>> /\ dependent_var_data = <<>>
NoMatrices == independent_matrix = <<>> /\ dependent_matrix = <<>>
NoRate == learning_rate = Zero /\ step_count = 0

InitStats ==
    /\ fn \in {"mean_calculator", "sample_standard_deviation",
               "pearsons_correlation_coefficient", "simple_linear_regression"}
    /\ independent_var_data \in Samples
    /\ dependent_var_data \in
          IF fn \in {"mean_calculator", "sample_standard_deviation"}
          THEN {<<>>} ELSE Samples
    /\ NoMatrices /\ NoRate /\ Idle

InitOls ==
    /\ fn = "ordinary_least_squares"
    /\ independent_matrix \in MatricesOf(MaxRows)
    /\ dependent_matrix \in TargetsOf(MaxRows)
    /\ NoSamples /\ NoRate /\ Idle

InitGd ==
    /\ fn = "gradient_descent"
    /\ independent_matrix \in MatricesOf(MaxRowsGD) \cup {<<>>}
    /\ dependent_matrix \in TargetsOf(MaxRowsGD)
    /\ learning_rate \in LearningRates
    /\ step_count \in 0..MaxSteps
    /\ NoSamples /\ Idle

Init == InitStats \/ InitOls \/ InitGd

(***************************************************************************)
(* The calls.                                                              *)
(***************************************************************************)
args == <<fn, independent_var_data, dependent_var_data, independent_matrix,
          dependent_matrix, learning_rate, step_count>>

\* the state after a call that ran in one piece
Finish(exc, value, taken, printed) ==
    /\ pc' = "done"
    /\ outcome' = IF exc = "none" THEN "return" ELSE exc
    /\ result' = IF exc = "none" THEN value ELSE NoValue
    /\ branch' = taken
    /\ console' = console \o printed
    /\ UNCHANGED <<args, theta, steps>>

MeanCall ==
    /\ pc = "call" /\ fn = "mean_calculator"
    /\ LET out == mean_calculator(independent_var_data)
       IN  Finish(out.exc, Value("number", <<out.val>>), "none", <<>>)

StdevCall ==
    /\ pc = "call" /\ fn = "sample_standard_deviation"
    /\ LET out == sample_standard_deviation(independent_var_data,
                                            MeanOf(independent_var_data))
       IN  Finish(out.exc, Value("number", <<out.val>>), "none", <<>>)

PearsonCall ==
    /\ pc = "call" /\ fn = "pearsons_correlation_coefficient"
    /\ LET out == pearsons_correlation_coefficient(
                      independent_var_data, dependent_var_data,
                      MeanOf(independent_var_data), MeanOf(dependent_var_data))
       IN  Finish(out.exc, Value("number", <<out.val>>), "none", <<>>)

SlrCall ==
    /\ pc = "call" /\ fn = "simple_linear_regression"
    /\ LET out == simple_linear_regression(independent_var_data, dependent_var_data)
       IN  Finish(out.exc, Value("tuple", out.val), out.branch, out.printed)

OlsCall ==
    /\ pc = "call" /\ fn = "ordinary_least_squares"
    /\ LET out == ordinary_least_squares(independent_matrix, dependent_matrix)
       IN  Finish(out.exc, out.value, "none", <<>>)

\* lines 154-155; independent_matrix[0] raises for a matrix of no rows
GdStart ==
    /\ pc = "call" /\ fn = "gradient_descent"
    /\ IF Len(independent_matrix) = 0
       THEN Finish("IndexError", NoValue, "none", <<>>)
       ELSE /\ theta' = InitialTheta(independent_matrix)
            /\ pc' = "loop"
            /\ UNCHANGED <<args, steps, branch, outcome, result, console>>

\* lines 157-163: one iteration of the loop
GdStep ==
    /\ pc = "loop" /\ LoopContinues(steps, step_count)
    /\ IF Broadcasts(dependent_matrix, Len(independent_matrix))
       THEN /\ theta' = Update(theta, learning_rate,
                               Gradient(independent_matrix, dependent_matrix, theta))
            /\ steps' = steps + 1
            /\ UNCHANGED <<args, pc, branch, outcome, result, console>>
       ELSE Finish("ValueError", NoValue, "none", <<>>)

\* line 165
GdReturn ==
    /\ pc = "loop" /\ ~LoopContinues(steps, step_count)
    /\ Finish("none", Value("vector", theta), "none", <<>>)

NextStats == MeanCall \/ StdevCall \/ PearsonCall \/ SlrCall
NextOls == OlsCall
NextGd == GdStart \/ GdStep \/ GdReturn
Next == NextStats \/ NextOls \/ NextGd

SpecStats == InitStats /\ [][NextStats]_vars
SpecOls == InitOls /\ [][NextOls]_vars
SpecGd == InitGd /\ [][NextGd]_vars
Spec == Init /\ [][Next]_vars

(***************************************************************************)
(* Notions the properties are stated in.                                   *)
(***************************************************************************)
Returned == pc = "done" /\ outcome = "return"

Rows == Len(independent_matrix)
Cols == Len(independent_matrix[1])

\* the product of an integer matrix and an integer vector
RECURSIVE IntDot(_, _)
IntDot(row, c) ==
    IF Len(row) = 0 THEN 0
    ELSE IntDot(SubSeq(row, 1, Len(row) - 1), c) + row[Len(row)] * c[Len(row)]

IntMatVec(M, c) == [i \in 1..Len(M) |-> IntDot(M[i], c)]

\* coefficient vectors with entries in -1..1
Betas(p) == [1..p -> -1..1]

\* No non-trivial combination of the columns vanishes.  For matrices of at
\* most two columns with entries 0 and 1, combinations with coefficients in
\* -1..1 decide it: dependent columns are a zero column or two equal ones.
FullColumnRank(M) ==
    \A c \in Betas(Len(M[1])) :
        (\E j \in 1..Len(c) : c[j] # 0) => (\E i \in 1..Len(M) : IntMatVec(M, c)[i] # 0)

\* the targets are exactly M times b
ExactFor(b) == dependent_matrix = IntMatVec(independent_matrix, b)

\* the squared distance of a rational vector from an integer vector
Dist2(th, b) == Sum([j \in 1..Len(b) |-> RSq(RSub(th[j], R(b[j])))])

ZeroVector(p) == [j \in 1..p |-> Zero]

(***************************************************************************)
(* C1.  A call of simple_linear_regression that rejects the data (the      *)
(* correlation is below the threshold) returns a value that differs from   *)
(* the value of a fit with slope 0 and intercept 0, the pair (0, 0).       *)
(* The code returns 0, 0 on that branch.                                   *)
(***************************************************************************)
C1_RejectionDistinguishable ==
    (fn = "simple_linear_regression" /\ pc = "done" /\ branch = "rejected")
        => result # Value("tuple", <<Zero, Zero>>)

(***************************************************************************)
(* C2.  When the determinant of the transpose times the matrix is 0,       *)
(* ordinary_least_squares ends in an error and returns no value.           *)
(* The code returns the number 0.                                          *)
(***************************************************************************)
C2_SingularFails ==
    (fn = "ordinary_least_squares" /\ pc = "done"
        /\ Det(Dot(Transpose(MatR(independent_matrix)), MatR(independent_matrix))) = Zero)
        => outcome # "return"

(***************************************************************************)
(* C3.  On exact data of a full-rank matrix, with a small positive         *)
(* learning rate, an update of gradient_descent moves theta towards the    *)
(* coefficient vector that generated the data, never away from it: the     *)
(* distance to it does not grow in any iteration.                          *)
(* The code subtracts rate * X^T (y - X theta) / n, which is the ascent    *)
(* direction, so the distance grows.                                       *)
(***************************************************************************)
C3_UpdateApproaches ==
    [][\A b \in Betas(IF Rows = 0 THEN 1 ELSE Cols) :
          (/\ pc = "loop" /\ pc' = "loop" /\ steps' = steps + 1
           /\ Len(dependent_matrix) = Rows
           /\ RLt(Zero, learning_rate)
           /\ FullColumnRank(independent_matrix)
           /\ ExactFor(b))
          => RLeq(Dist2(theta', b), Dist2(theta, b))]_vars

(***************************************************************************)
(* C4.  OLS round trip: for a matrix of at least 3 rows and 2 columns of   *)
(* full column rank and targets that are exactly the matrix times a        *)
(* coefficient vector, ordinary_least_squares returns that vector.         *)
(***************************************************************************)
C4_RoundTrip ==
    (/\ fn = "ordinary_least_squares" /\ pc = "done"
     /\ Rows >= 3 /\ Cols = 2
     /\ FullColumnRank(independent_matrix))
    => \A b \in Betas(2) :
          ExactFor(b) => (outcome = "return" /\ result = Value("vector", ToR(b)))

C4_Witness ==
    /\ fn = "ordinary_least_squares" /\ Returned
    /\ Rows >= 3 /\ Cols = 2
    /\ FullColumnRank(independent_matrix)
    /\ ExactFor(<<1, -1>>)
    /\ result = Value("vector", <<R(1), R(-1)>>)

(***************************************************************************)
(* C5.  gradient_descent with step_count 0 returns the zero vector with    *)
(* one entry for each column of the matrix, for every matrix of at least   *)
(* one row, every target vector and every learning rate.                   *)
(***************************************************************************)
C5_ZeroSteps ==
    (fn = "gradient_descent" /\ pc = "done" /\ step_count = 0 /\ Rows >= 1)
        => (outcome = "return" /\ result = Value("vector", ZeroVector(Cols)))

C5_Witness ==
    /\ fn = "gradient_descent" /\ Returned /\ step_count = 0
    /\ Rows = 1 /\ Cols = 2
    /\ Len(dependent_matrix) # Rows
    /\ RLt(learning_rate, Zero)
    /\ result = Value("vector", <<Zero, Zero>>)

(***************************************************************************)
(* C6.  gradient_descent with a learning rate that is 0 or negative        *)
(* performs no update of theta and returns no value.                       *)
(* The code does not look at the sign of the rate.                         *)
(***************************************************************************)
C6_RejectsRate ==
    (fn = "gradient_descent" /\ RLeq(learning_rate, Zero))
        => (steps = 0 /\ outcome # "return")

(***************************************************************************)
(* C7.  sample_standard_deviation of a sample of fewer than 2 values ends  *)
(* in an error and returns no number.                                      *)
(* The code returns 0 for the empty sample.                                *)
(***************************************************************************)
C7_SmallSampleFails ==
    (fn = "sample_standard_deviation" /\ pc = "done" /\ Len(independent_var_data) < 2)
        => outcome # "return"

(***************************************************************************)
(* C8.  pearsons_correlation_coefficient of two sequences of different     *)
(* lengths ends in an error and returns no coefficient.                    *)
(* The code returns one, computed from a prefix of the dependent sequence, *)
(* when the independent sequence is the shorter.                           *)
(***************************************************************************)
C8_LengthMismatchFails ==
    (fn = "pearsons_correlation_coefficient" /\ pc = "done"
        /\ Len(independent_var_data) # Len(dependent_var_data))
        => outcome # "return"

WellFormed ==
    /\ fn = "gradient_descent"
    /\ Rows >= 1
    /\ Len(dependent_matrix) = Rows
    /\ RLt(Zero, learning_rate)

\* the loop never runs more than step_count times, theta keeps one entry for
\* each column, and the call ends by returning theta after step_count updates
UpdatesCounted ==
    (WellFormed /\ pc # "call")
        => /\ steps <= step_count
           /\ Len(theta) = Cols
           /\ pc = "done" => /\ steps = step_count
                             /\ outcome = "return"
                             /\ result = Value("vector", theta)

\* inside the loop the next step is an update computed from the current
\* theta while fewer than step_count were made, and the return after that
UpdateFromPrevious ==
    (WellFormed /\ pc = "loop")
        => \/ /\ steps < step_count
              /\ pc' = "loop"
              /\ steps' = steps + 1
              /\ theta' = [j \in 1..Cols |->
                     RSub(theta[j],
                          RMul(learning_rate,
                               Gradient(independent_matrix, dependent_matrix, theta)[j]))]
           \/ /\ steps = step_count
              /\ pc' = "done"
              /\ steps' = steps
              /\ theta' = theta

(***************************************************************************)
(* C10.  For well-formed arguments (a matrix of at least one row, as many  *)
(* targets as rows, a positive learning rate) gradient_descent performs    *)
(* exactly step_count updates in sequence, each computed from the theta of *)
(* the step before, with no early stop: while fewer than step_count        *)
(* updates were made the only step is another update, theta has one entry  *)
(* for each column throughout, and the call ends by returning theta after  *)
(* step_count updates, not before and not by raising.                      *)
(***************************************************************************)
C10_ExactlyTUpdates == []UpdatesCounted /\ [][UpdateFromPrevious]_vars

C10_Witness ==
    /\ WellFormed /\ Returned
    /\ step_count = MaxSteps /\ steps = MaxSteps
    /\ Cols = 2
    /\ theta # ZeroVector(Cols)

====
